---- MODULE Spec2Model ----
(***************************************************************************)
(* Model of familytreebuilder_to_pdf.py: a CSV of person records is read,  *)
(* dead people are filtered out, birthday and anniversary events are       *)
(* extracted, grouped by month, sorted, and rendered to a document.        *)
(*                                                                         *)
(* Text is modelled as a sequence of one-character strings, so that        *)
(* splitting, parsing, formatting and comparison are computed as the code  *)
(* computes them.  A CSV row is a function from column names to text.      *)
(* Python exceptions are values: a result is [exc, key, val] with exc = "" *)
(* for a normal return.                                                    *)
(*                                                                         *)
(* Instrumentation (read by no modelled code): a row carries the number of *)
(* the CSV line it came from, an event carries the kind and the line of    *)
(* the record it was derived from, and caught lists what the bare except   *)
(* of the birthday loop swallowed.                                         *)
(***************************************************************************)
EXTENDS Integers, Sequences, FiniteSets, TLC

VARIABLES pc, header, csv, rows, special_days, events_by_month, story, output,
          caught, arg, ret

vars == <<pc, header, csv, rows, special_days, events_by_month, story, output,
          caught, arg, ret>>

\* ------------------------------------------------------------------ bounds

\* The largest number of data rows in the CSV file.
MaxRows == 2

\* ------------------------------------------------------------------ text

SP == <<" ">>

Punct == <<" ", "(", ")", "-", ".">>

Digits == <<"0","1","2","3","4","5","6","7","8","9">>

Upper == <<"A","B","C","D","E","F","G","H","I","J","K","L","M","N","O","P","Q","R","S","T","U","V","W","X","Y","Z">>

Lower == <<"a","b","c","d","e","f","g","h","i","j","k","l","m","n","o","p","q","r","s","t","u","v","w","x","y","z">>

\* The characters of the model, in code point order.
Ascii == Punct \o Digits \o Upper \o Lower

Chars == {Ascii[i] : i \in 1..Len(Ascii)}

\* ord(c), up to an order-preserving renumbering.
Ord == [c \in Chars |-> CHOOSE i \in 1..Len(Ascii) : Ascii[i] = c]

IsDigit(c) == \E i \in 1..Len(Digits) : Digits[i] = c

DigitVal(c) == (CHOOSE i \in 1..Len(Digits) : Digits[i] = c) - 1

\* c.lower()
ToLower(c) ==
    IF \E i \in 1..Len(Upper) : Upper[i] = c
    THEN Lower[CHOOSE i \in 1..Len(Upper) : Upper[i] = c]
    ELSE c

LowerStr(s) == [i \in 1..Len(s) |-> ToLower(s[i])]

\* Python's str < str: by code point, a proper prefix is smaller.
StrLt(a, b) ==
    \E k \in 1..(Len(a) + 1) :
        /\ k <= Len(b)
        /\ \A j \in 1..(k - 1) : a[j] = b[j]
        /\ (k = Len(a) + 1 \/ Ord[a[k]] < Ord[b[k]])

RECURSIVE IntToStr(_)
\* "%s" % n for an int n >= 0: decimal, no padding.
IntToStr(n) ==
    IF n < 10 THEN <<Digits[n + 1]>>
    ELSE IntToStr(n \div 10) \o <<Digits[(n % 10) + 1]>>

RECURSIVE StrToInt(_)
\* int(s) for a string of digits.
StrToInt(s) ==
    IF s = <<>> THEN 0
    ELSE 10 * StrToInt(SubSeq(s, 1, Len(s) - 1)) + DigitVal(s[Len(s)])

\* s.rsplit(' ', 1): split once at the last space, if there is one.
rsplit1(s) ==
    IF \E i \in 1..Len(s) : s[i] = " "
    THEN LET k == CHOOSE i \in 1..Len(s) :
                      s[i] = " " /\ \A j \in (i + 1)..Len(s) : s[j] # " "
         IN  <<SubSeq(s, 1, k - 1), SubSeq(s, k + 1, Len(s))>>
    ELSE <<s>>

\* ------------------------------------------------------------ exceptions

Ok(v) == [exc |-> "", key |-> "", val |-> v]

KeyError(c) == [exc |-> "KeyError", key |-> c, val |-> <<>>]

ValueError == [exc |-> "ValueError", key |-> "", val |-> <<>>]

\* The first column of cs, in access order, that row lacks; "" if none.
Missing(row, cs) ==
    IF \E i \in 1..Len(cs) : cs[i] \notin DOMAIN row
    THEN cs[CHOOSE i \in 1..Len(cs) :
                cs[i] \notin DOMAIN row /\ \A j \in 1..(i - 1) : cs[j] \in DOMAIN row]
    ELSE ""

\* ------------------------------------------------- datetime.strptime

month_abbr == << <<"j","a","n">>, <<"f","e","b">>, <<"m","a","r">>, <<"a","p","r">>,
                 <<"m","a","y">>, <<"j","u","n">>, <<"j","u","l">>, <<"a","u","g">>,
                 <<"s","e","p">>, <<"o","c","t">>, <<"n","o","v">>, <<"d","e","c">> >>

\* %b: the month whose abbreviated name s is, ignoring case; 0 if none.
MonthOf(s) ==
    IF \E m \in 1..Len(month_abbr) : month_abbr[m] = LowerStr(s)
    THEN CHOOSE m \in 1..Len(month_abbr) : month_abbr[m] = LowerStr(s)
    ELSE 0

IsLeap(y) == (y % 4 = 0 /\ y % 100 # 0) \/ y % 400 = 0

DaysIn(m, y) ==
    IF m = 2 /\ IsLeap(y) THEN 29
    ELSE <<31, 28, 31, 30, 31, 30, 31, 31, 30, 31, 30, 31>>[m]

RECURSIVE SkipSpaces(_, _)
\* The first position at or after i that holds no space (\s+ of the format).
SkipSpaces(s, i) ==
    IF i <= Len(s) /\ s[i] = " " THEN SkipSpaces(s, i + 1) ELSE i

RECURSIVE SkipDigits(_, _)
\* The first position at or after i that holds no digit.
SkipDigits(s, i) ==
    IF i <= Len(s) /\ IsDigit(s[i]) THEN SkipDigits(s, i + 1) ELSE i

\* datetime.datetime.strptime(s, "%b. %d %Y"): the whole text must be a month
\* abbreviation, a period, white space, a day of one or two digits, white
\* space and a year of four digits, and the date must exist in the calendar.
strptime(s) ==
    LET d1 == SkipSpaces(s, 5)
        d2 == SkipDigits(s, d1)
        y1 == SkipSpaces(s, d2)
        y2 == SkipDigits(s, y1)
        month == MonthOf(SubSeq(s, 1, 3))
        day == StrToInt(SubSeq(s, d1, d2 - 1))
        year == StrToInt(SubSeq(s, y1, y2 - 1))
    IN  IF /\ Len(s) >= 4
           /\ month # 0
           /\ s[4] = "."
           /\ d1 > 5
           /\ d2 - d1 \in {1, 2}
           /\ y1 > d2
           /\ y2 - y1 = 4
           /\ y2 = Len(s) + 1
           /\ year >= 1
           /\ day >= 1
           /\ day <= DaysIn(month, year)
        THEN Ok([year |-> year, month |-> month, day |-> day])
        ELSE ValueError

\* ----------------------------------------------------- normalize_name

GenderM == <<"M">>

\* Lines 28-34: the name of a record whose Gender is not M.
female_name(row) ==
    IF "Marriage to" \notin DOMAIN row THEN KeyError("Marriage to")
    ELSE LET spouse_last_name == rsplit1(row["Marriage to"])
         IN  IF Len(spouse_last_name) = 2
             THEN IF "First name" \notin DOMAIN row THEN KeyError("First name")
                  ELSE Ok(row["First name"] \o SP \o spouse_last_name[2])
             ELSE IF "Married Name" \notin DOMAIN row THEN KeyError("Married Name")
             ELSE IF row["Married Name"] # <<>>
             THEN IF "First name" \notin DOMAIN row THEN KeyError("First name")
                  ELSE Ok(row["First name"] \o SP \o row["Married Name"])
             ELSE LET miss == Missing(row, <<"First name", "Last name">>)
                  IN  IF miss # "" THEN KeyError(miss)
                      ELSE Ok(row["First name"] \o SP \o row["Last name"])

\* Mutant: the Gender test left out, every record named by the other rule.
normalize_name_no_gender_test(row) ==
    female_name(row)

normalize_name(row) ==
    IF "Gender" \notin DOMAIN row THEN KeyError("Gender")
    ELSE IF row["Gender"] = GenderM
    THEN LET miss == Missing(row, <<"First name", "Last name">>)
         IN  IF miss # "" THEN KeyError(miss)
             ELSE Ok(row["First name"] \o SP \o row["Last name"])
    ELSE female_name(row)

\* -------------------------------------------------------- parse_input

\* csv.DictReader: one row per data line, keyed by the header's columns.
DictReader(file) == [i \in 1..Len(file) |-> [line |-> i, cells |-> file[i]]]

\* Mutant: nobody is filtered out.
SelectAlive_keep_all(rs) ==
    rs

RECURSIVE SelectAlive(_)
\* [row for row in rows if not row['Death date']]
SelectAlive(rs) ==
    IF rs = <<>> THEN <<>>
    ELSE IF Head(rs).cells["Death date"] = <<>>
         THEN <<Head(rs)>> \o SelectAlive(Tail(rs))
         ELSE SelectAlive(Tail(rs))

\* Line 42, with the KeyError of a header that has no Death date column.
filter_dead(rs) ==
    IF rs # <<>> /\ "Death date" \notin DOMAIN rs[1].cells
    THEN KeyError("Death date")
    ELSE Ok(SelectAlive(rs))

BirthdayReason(name, year) ==
    <<"B","i","r","t","h","d","a","y"," ","o","f"," ">> \o name
        \o <<" ","(","b","o","r","n"," ","i","n"," ">> \o IntToStr(year) \o <<")">>

\* The body of the try block of the birthday loop for one row: val is the
\* list of events it appends (none or one).
birthday_body(r) ==
    IF "Birth date" \notin DOMAIN r.cells THEN KeyError("Birth date")
    ELSE IF r.cells["Birth date"] = <<>> THEN Ok(<<>>)
    ELSE LET d == strptime(r.cells["Birth date"])
             nm == normalize_name(r.cells)
         IN  IF d.exc # "" THEN d
             ELSE IF nm.exc # "" THEN nm
             ELSE Ok(<<[date |-> d.val,
                        reason |-> BirthdayReason(nm.val, d.val.year),
                        kind |-> "birthday", line |-> r.line]>>)

RECURSIVE birthday_loop_break(_)
\* Mutant: the try around the whole loop, the first failure ends it.
birthday_loop_break(rs) ==
    IF rs = <<>> THEN [events |-> <<>>, caught |-> <<>>]
    ELSE LET b == birthday_body(Head(rs))
         IN  IF b.exc # ""
             THEN [events |-> <<>>,
                   caught |-> <<[line |-> Head(rs).line, exc |-> b.exc, key |-> b.key]>>]
             ELSE LET rest == birthday_loop_break(Tail(rs))
                  IN  [events |-> b.val \o rest.events, caught |-> rest.caught]

RECURSIVE birthday_loop(_)
\* The birthday loop: each row's try block, any exception swallowed by the
\* bare except and the loop going on with the next row.
birthday_loop(rs) ==
    IF rs = <<>> THEN [events |-> <<>>, caught |-> <<>>]
    ELSE LET b == birthday_body(Head(rs))
             rest == birthday_loop(Tail(rs))
         IN  IF b.exc # ""
             THEN [events |-> rest.events,
                   caught |-> <<[line |-> Head(rs).line, exc |-> b.exc, key |-> b.key]>>
                                  \o rest.caught]
             ELSE [events |-> b.val \o rest.events, caught |-> rest.caught]

AnniversaryReason(first, last, spouse, year) ==
    <<"A","n","n","i","v","e","r","s","a","r","y"," ","o","f"," ">> \o first
        \o SP \o last \o <<" ","a","n","d"," ">> \o spouse
        \o <<" ","(","m","a","r","r","i","e","d"," ","i","n"," ">> \o IntToStr(year) \o <<")">>

\* Mutant: the Gender test left out of line 59.
anniversary_guard_any_gender(cells) ==
    IF "Marriage date" \notin DOMAIN cells THEN KeyError("Marriage date")
    ELSE Ok(cells["Marriage date"] # <<>>)

\* Whether the anniversary loop takes the row: line 59, with the KeyError of
\* a missing column; Gender is looked up only when Marriage date is not empty.
anniversary_guard(cells) ==
    IF "Marriage date" \notin DOMAIN cells THEN KeyError("Marriage date")
    ELSE IF cells["Marriage date"] = <<>> THEN Ok(FALSE)
    ELSE IF "Gender" \notin DOMAIN cells THEN KeyError("Gender")
    ELSE Ok(cells["Gender"] = GenderM)

\* One iteration of the anniversary loop: val is the list of events it appends.
anniversary_body(r) ==
    LET g == anniversary_guard(r.cells)
    IN  IF g.exc # "" THEN g
        ELSE IF ~g.val THEN Ok(<<>>)
        ELSE LET d == strptime(r.cells["Marriage date"])
                 miss == Missing(r.cells, <<"First name", "Last name", "Marriage to">>)
             IN  IF d.exc # "" THEN d
                 ELSE IF miss # "" THEN KeyError(miss)
                 ELSE Ok(<<[date |-> d.val,
                            reason |-> AnniversaryReason(r.cells["First name"],
                                          r.cells["Last name"], r.cells["Marriage to"],
                                          d.val.year),
                            kind |-> "anniversary", line |-> r.line]>>)

RECURSIVE anniversary_loop_swallow(_)
\* Mutant: a try/except like the birthday loop's, a failing row skipped.
anniversary_loop_swallow(rs) ==
    IF rs = <<>> THEN Ok(<<>>)
    ELSE LET a == anniversary_body(Head(rs))
             rest == anniversary_loop_swallow(Tail(rs))
         IN  IF a.exc # "" THEN rest
             ELSE [exc |-> rest.exc, key |-> rest.key, val |-> a.val \o rest.val]

RECURSIVE anniversary_loop(_)
\* The anniversary loop: nothing is caught, the first exception ends it; val
\* is the list of the events appended until then.
anniversary_loop(rs) ==
    IF rs = <<>> THEN Ok(<<>>)
    ELSE LET a == anniversary_body(Head(rs))
         IN  IF a.exc # "" THEN a
             ELSE LET rest == anniversary_loop(Tail(rs))
                  IN  [exc |-> rest.exc, key |-> rest.key, val |-> a.val \o rest.val]

\* The dict is a sequence of [month, events] items in insertion order.
Keys(d) == [i \in 1..Len(d) |-> d[i].month]

RECURSIVE InsertByMonth(_, _)
InsertByMonth(d, item) ==
    IF d = <<>> THEN <<item>>
    ELSE IF item.month < Head(d).month THEN <<item>> \o d
    ELSE <<Head(d)>> \o InsertByMonth(Tail(d), item)

\* Mutant: a mapping that keeps its keys in numeric (calendar) order.
AppendTo_calendar_order(d, e) ==
    IF \E i \in 1..Len(d) : d[i].month = e.date.month
    THEN [i \in 1..Len(d) |->
             IF d[i].month = e.date.month
             THEN [month |-> d[i].month, events |-> Append(d[i].events, e)]
             ELSE d[i]]
    ELSE InsertByMonth(d, [month |-> e.date.month, events |-> <<e>>])

\* events_by_month[month].append(event) on a defaultdict(list)
AppendTo(d, e) ==
    IF \E i \in 1..Len(d) : d[i].month = e.date.month
    THEN [i \in 1..Len(d) |->
             IF d[i].month = e.date.month
             THEN [month |-> d[i].month, events |-> Append(d[i].events, e)]
             ELSE d[i]]
    ELSE Append(d, [month |-> e.date.month, events |-> <<e>>])

RECURSIVE group_by_month(_, _)
\* Lines 66-68, from the dict d on.
group_by_month(d, events) ==
    IF events = <<>> THEN d
    ELSE group_by_month(AppendTo(d, Head(events)), Tail(events))

\* Mutant: the sort key is the day alone.
KeyLt_day_only(a, b) ==
    a.date.day < b.date.day

\* The sort key (i['date'].day, i['reason']) of a before that of b.
KeyLt(a, b) ==
    \/ a.date.day < b.date.day
    \/ a.date.day = b.date.day /\ StrLt(a.reason, b.reason)

RECURSIVE Insert(_, _)
\* e put into the sorted list s behind every element whose key is not larger.
Insert(e, s) ==
    IF s = <<>> THEN <<e>>
    ELSE IF KeyLt(e, Head(s)) THEN <<e>> \o s
    ELSE <<Head(s)>> \o Insert(e, Tail(s))

RECURSIVE sorted(_)
\* sorted(events, key=...): ascending and stable.
sorted(events) ==
    IF events = <<>> THEN <<>>
    ELSE Insert(events[Len(events)], sorted(SubSeq(events, 1, Len(events) - 1)))

\* Lines 71-72: every bucket replaced by its sorted copy, the keys kept.
sort_each_month(d) ==
    [i \in 1..Len(d) |-> [month |-> d[i].month, events |-> sorted(d[i].events)]]

\* ------------------------------------------------------- generate_pdf

month_name == <<"January", "February", "March", "April", "May", "June", "July",
                "August", "September", "October", "November", "December">>

Title == [kind |-> "title", month |-> "", text |-> <<>>]

Spacer == [kind |-> "spacer", month |-> "", text |-> <<>>]

MonthHeading(m) == [kind |-> "month", month |-> month_name[m], text |-> <<>>]

EventLine(e) ==
    [kind |-> "event", month |-> "", text |-> IntToStr(e.date.day) \o SP \o e.reason]

Section(b) == <<MonthHeading(b.month)>> \o [i \in 1..Len(b.events) |-> EventLine(b.events[i])]

RECURSIVE Sections(_, _)
\* The loop of lines 88-99 over the dict's keys, from item k on.
Sections(d, k) ==
    IF k > Len(d) THEN <<>>
    ELSE (IF k = 1 THEN <<>> ELSE <<Spacer>>) \o Section(d[k]) \o Sections(d, k + 1)

build_story(d) == <<Title>> \o Sections(d, 1)

\* ------------------------------------------------------------- inputs

Cols == {"First name", "Last name", "Gender", "Birth date", "Death date",
         "Marriage date", "Marriage to", "Married Name"}

Row(first, last, gender, birth, death, mdate, mto, mname) ==
    ("First name" :> first) @@ ("Last name" :> last) @@ ("Gender" :> gender)
    @@ ("Birth date" :> birth) @@ ("Death date" :> death)
    @@ ("Marriage date" :> mdate) @@ ("Marriage to" :> mto) @@ ("Married Name" :> mname)

Tom == <<"T","o","m">>
Lee == <<"L","e","e">>
Ann == <<"A","n","n">>
Ray == <<"R","a","y">>
Kay == <<"K","a","y">>
TomLee == <<"T","o","m"," ","L","e","e">>
AnnRay == <<"A","n","n"," ","R","a","y">>

Jan05 == <<"J","a","n","."," ","0","5"," ","1","9","8","0">>
Mar03 == <<"M","a","r","."," ","0","3"," ","1","9","7","5">>
Feb30 == <<"F","e","b","."," ","3","0"," ","1","9","9","0">>
Dec01 == <<"D","e","c","."," ","0","1"," ","2","0","1","0">>
Jan03 == <<"J","a","n","."," ","0","3"," ","2","0","0","0">>
IsoDate == <<"2","0","0","0","-","0","3","-","0","5">>

BirthDates == {<<>>, Jan05, Mar03}
DeathDates == {<<>>, Dec01}
MarriageDates == {<<>>, Jan03, IsoDate}

\* The records of the model's files: a husband and a wife, each with every
\* combination of birth, death and marriage dates.  The husband's malformed
\* Birth date is a day that does not exist, the wife's a text in another
\* format.
People ==
    {Row(Tom, Lee, GenderM, b, d, m, AnnRay, <<>>) :
        b \in BirthDates \cup {Feb30}, d \in DeathDates, m \in MarriageDates}
    \cup
    {Row(Ann, Ray, <<"F">>, b, d, m, TomLee, <<>>) :
        b \in BirthDates \cup {IsoDate}, d \in DeathDates, m \in MarriageDates}

\* The records of the files that lack a column: both alive, born on the same
\* day, married or not.
ColPeople ==
    {r \in People : /\ r["Birth date"] = Jan05
                    /\ r["Death date"] = <<>>
                    /\ r["Marriage date"] \in {<<>>, Jan03}}

TomLeeTrailing == <<"T","o","m"," ","L","e","e"," ">>
TomLeeDouble == <<"T","o","m"," "," ","L","e","e">>

\* The rows normalize_name is called on by itself.
NameRows ==
    {Row(Ann, l, g, Jan05, <<>>, <<>>, mt, mn) :
        l \in {Ray, <<>>}, g \in {GenderM, <<"F">>, <<>>},
        mt \in {<<>>, Tom, TomLee, TomLeeTrailing, TomLeeDouble}, mn \in {<<>>, Kay}}

RECURSIVE SeqsUpTo(_, _)
SeqsUpTo(S, n) ==
    IF n = 0 THEN {<<>>}
    ELSE LET shorter == SeqsUpTo(S, n - 1)
         IN  shorter \cup {Append(s, x) : s \in shorter, x \in S}

\* ------------------------------------------------------------ actions

NoDoc == <<>>

InitMain ==
    \E file \in SeqsUpTo(People, MaxRows) :
        /\ pc = "main"
        /\ header = Cols
        /\ csv = file
        /\ rows = <<>>
        /\ special_days = <<>>
        /\ events_by_month = <<>>
        /\ story = <<>>
        /\ output = NoDoc
        /\ caught = <<>>
        /\ arg = <<>>
        /\ ret = Ok(<<>>)

\* A file whose header lacks one of the expected columns.
InitCols ==
    \E c \in Cols, file \in SeqsUpTo(ColPeople, MaxRows) :
        /\ pc = "main"
        /\ header = Cols \ {c}
        /\ csv = [i \in 1..Len(file) |-> [k \in Cols \ {c} |-> file[i][k]]]
        /\ rows = <<>>
        /\ special_days = <<>>
        /\ events_by_month = <<>>
        /\ story = <<>>
        /\ output = NoDoc
        /\ caught = <<>>
        /\ arg = <<>>
        /\ ret = Ok(<<>>)

\* normalize_name about to be called on one row.
InitCall ==
    \E row \in NameRows :
        /\ pc = "call"
        /\ header = Cols
        /\ csv = <<>>
        /\ rows = <<>>
        /\ special_days = <<>>
        /\ events_by_month = <<>>
        /\ story = <<>>
        /\ output = NoDoc
        /\ caught = <<>>
        /\ arg = row
        /\ ret = Ok(<<>>)

Init == InitMain \/ InitCols \/ InitCall

\* Lines 18-34, called on arg.
CallNormalizeName ==
    /\ pc = "call"
    /\ ret' = normalize_name(arg)
    /\ pc' = "returned"
    /\ UNCHANGED <<header, csv, rows, special_days, events_by_month, story, output, caught, arg>>

\* Lines 37-39: the file is read into rows.
ReadRows ==
    /\ pc = "main"
    /\ rows' = DictReader(csv)
    /\ pc' = "filter"
    /\ UNCHANGED <<header, csv, special_days, events_by_month, story, output, caught, arg, ret>>

\* Line 42.
FilterDead ==
    /\ pc = "filter"
    /\ LET f == filter_dead(rows)
       IN  IF f.exc # ""
           THEN /\ pc' = "raised"
                /\ ret' = f
                /\ UNCHANGED rows
           ELSE /\ pc' = "birthdays"
                /\ rows' = f.val
                /\ UNCHANGED ret
    /\ UNCHANGED <<header, csv, special_days, events_by_month, story, output, caught, arg>>

\* Lines 47-55.
BirthdayPass ==
    /\ pc = "birthdays"
    /\ LET b == birthday_loop(rows)
       IN  /\ special_days' = special_days \o b.events
           /\ caught' = b.caught
    /\ pc' = "anniversaries"
    /\ UNCHANGED <<header, csv, rows, events_by_month, story, output, arg, ret>>

\* Lines 58-63: an exception leaves parse_input and main.
AnniversaryPass ==
    /\ pc = "anniversaries"
    /\ LET a == anniversary_loop(rows)
       IN  /\ special_days' = special_days \o a.val
           /\ IF a.exc # ""
              THEN /\ pc' = "raised"
                   /\ ret' = [a EXCEPT !.val = <<>>]
              ELSE /\ pc' = "group"
                   /\ UNCHANGED ret
    /\ UNCHANGED <<header, csv, rows, events_by_month, story, output, caught, arg>>

\* Lines 66-68.
GroupByMonth ==
    /\ pc = "group"
    /\ events_by_month' = group_by_month(<<>>, special_days)
    /\ pc' = "sort"
    /\ UNCHANGED <<header, csv, rows, special_days, story, output, caught, arg, ret>>

\* Lines 71-74: the sorted dict is returned to main.
SortMonths ==
    /\ pc = "sort"
    /\ events_by_month' = sort_each_month(events_by_month)
    /\ pc' = "generate_pdf"
    /\ UNCHANGED <<header, csv, rows, special_days, story, output, caught, arg, ret>>

\* Lines 76-102: the story is built and the document written.
GeneratePdf ==
    /\ pc = "generate_pdf"
    /\ story' = build_story(events_by_month)
    /\ output' = story'
    /\ pc' = "done"
    /\ UNCHANGED <<header, csv, rows, special_days, events_by_month, caught, arg, ret>>

Next ==
    \/ CallNormalizeName
    \/ ReadRows
    \/ FilterDead
    \/ BirthdayPass
    \/ AnniversaryPass
    \/ GroupByMonth
    \/ SortMonths
    \/ GeneratePdf

Spec == Init /\ [][Next]_vars

\* ------------------------------------------------------------- claims

\* What the files of the model hold, stated apart from strptime: the dates
\* that exist in the format, and the texts that are no date.
GoodDates == {Jan05, Mar03, Jan03, Dec01}

BadDates == {Feb30, IsoDate}

\* The year as the date text spells it.
YearText(d) == SubSeq(d, Len(d) - 3, Len(d))

WellFormed == header = Cols

Lines == 1..Len(csv)

IsAlive(i) == csv[i]["Death date"] = <<>>

IsMale(i) == csv[i]["Gender"] = GenderM

FullName(i) == csv[i]["First name"] \o SP \o csv[i]["Last name"]

\* Both passes have run and nothing was raised.
Extracted == pc \in {"group", "sort", "generate_pdf", "done"}

\* parse_input has returned its mapping.
Returned == pc \in {"generate_pdf", "done"}

BucketEvents ==
    UNION {{events_by_month[b].events[k] : k \in 1..Len(events_by_month[b].events)} :
              b \in 1..Len(events_by_month)}

EventsAnywhere == {special_days[k] : k \in 1..Len(special_days)} \cup BucketEvents

EventsOfKind(kind) == {e \in EventsAnywhere : e.kind = kind}

ListedOfKind(kind) == {k \in 1..Len(special_days) : special_days[k].kind = kind}

\* C1: a record whose Death date is not empty contributes no event, neither
\* to the list of extracted events nor to the mapping parse_input returns:
\* every event comes from a record whose Death date is empty.
C1_DeadContributeNothing ==
    \A e \in EventsAnywhere :
        /\ e.line \in Lines
        /\ "Death date" \in DOMAIN csv[e.line]
        /\ csv[e.line]["Death date"] = <<>>

\* A finished run on a file that holds a dead man with a valid birth date
\* and a valid marriage date, beside someone who does yield events.
C1_Witness ==
    /\ pc = "done"
    /\ WellFormed
    /\ BucketEvents # {}
    /\ \E i \in Lines :
           /\ ~IsAlive(i)
           /\ IsMale(i)
           /\ csv[i]["Birth date"] \in GoodDates
           /\ csv[i]["Marriage date"] \in GoodDates

IsInfix(p, s) ==
    \E k \in 0..(Len(s) - Len(p)) : SubSeq(s, k + 1, k + Len(p)) = p

\* C2: no event names a deceased person: the reason of no event holds the
\* name of a person whose own record has a Death date (a person other than
\* the one the event's record is about), not even as the spouse.
C2_NoDeceasedReferenced ==
    WellFormed =>
        \A e \in EventsAnywhere : \A i \in Lines :
            (~IsAlive(i) /\ FullName(i) # FullName(e.line))
                => ~IsInfix(FullName(i), e.reason)

BadBirth(i) == IsAlive(i) /\ csv[i]["Birth date"] \in BadDates

GoodBirth(i) == IsAlive(i) /\ csv[i]["Birth date"] \in GoodDates

\* The file with every malformed Birth date of a surviving record emptied.
Blanked ==
    [i \in Lines |->
        IF BadBirth(i) THEN [csv[i] EXCEPT !["Birth date"] = <<>>] ELSE csv[i]]

\* C3: a surviving record whose Birth date does not parse is skipped in the
\* birthday pass: it yields no birthday event, the error is swallowed and
\* not raised, every surviving record with a valid Birth date yields its one
\* birthday event, and the events extracted (or the abort of the
\* anniversary pass) are those of the file with that Birth date empty.
C3_MalformedBirthSkipped ==
    (WellFormed /\ pc \in {"anniversaries", "group", "sort", "generate_pdf", "done", "raised"}) =>
        LET asif == SelectAlive(DictReader(Blanked))
        IN  /\ \A i \in Lines : BadBirth(i) =>
                   ~\E k \in ListedOfKind("birthday") : special_days[k].line = i
            /\ \A i \in Lines : GoodBirth(i) =>
                   Cardinality({k \in ListedOfKind("birthday") : special_days[k].line = i}) = 1
            /\ {caught[k].line : k \in 1..Len(caught)} = {i \in Lines : BadBirth(i)}
            /\ \A k \in 1..Len(caught) : caught[k].exc = "ValueError"
            /\ pc = "anniversaries" => special_days = birthday_loop(asif).events
            /\ pc = "raised" => anniversary_loop(asif).exc = "ValueError"
            /\ (Extracted \/ pc = "raised") =>
                   special_days = birthday_loop(asif).events \o anniversary_loop(asif).val

\* A finished run on a file whose first record is alive, has a Birth date
\* that does not parse and yields its anniversary, and whose second record
\* yields its birthday.
C3_Witness ==
    /\ pc = "done"
    /\ WellFormed
    /\ Len(csv) = 2
    /\ BadBirth(1)
    /\ \E e \in BucketEvents : e.kind = "anniversary" /\ e.line = 1
    /\ \E e \in BucketEvents : e.kind = "birthday" /\ e.line = 2

FatalRow(i) == IsAlive(i) /\ IsMale(i) /\ csv[i]["Marriage date"] \in BadDates

\* C4: on a file with all its columns, once the anniversary pass has run the
\* run is aborted exactly when some surviving record with Gender M has a
\* Marriage date that does not parse (one on a dead or non-M record does not
\* count): then a ValueError was raised, no mapping was returned, no story
\* built and no document written; and a document is written only by a run
\* that reaches its end.
C4_MalformedMarriageAborts ==
    (WellFormed /\ pc \notin {"call", "returned"}) =>
        /\ pc \notin {"main", "filter", "birthdays", "anniversaries"} =>
               (pc = "raised" <=> \E i \in Lines : FatalRow(i))
        /\ pc = "raised" =>
               /\ ret.exc = "ValueError"
               /\ events_by_month = <<>>
               /\ story = <<>>
               /\ output = NoDoc
        /\ Extracted => ~\E i \in Lines : FatalRow(i)
        /\ output # NoDoc => pc = "done"

\* An aborted run that had computed a birthday event, on a file that also
\* holds a malformed Marriage date on a dead or non-M record.
C4_Witness ==
    /\ pc = "raised"
    /\ WellFormed
    /\ special_days # <<>>
    /\ \E i \in Lines :
           /\ csv[i]["Marriage date"] \in BadDates
           /\ ~FatalRow(i)

\* C5: a missing column that the program looks up aborts the run: a run
\* that completes has met no KeyError.
C5_MissingColumnFatal ==
    pc = "done" => \A k \in 1..Len(caught) : caught[k].exc # "KeyError"

RECURSIVE RStrip(_)
RStrip(s) ==
    IF s # <<>> /\ s[Len(s)] = " " THEN RStrip(SubSeq(s, 1, Len(s) - 1)) ELSE s

RECURSIVE AfterLastSpace(_)
AfterLastSpace(s) ==
    IF s = <<>> \/ s[Len(s)] = " " THEN <<>>
    ELSE Append(AfterLastSpace(SubSeq(s, 1, Len(s) - 1)), s[Len(s)])

\* The last token of s between white space.
LastToken(s) == AfterLastSpace(RStrip(s))

\* C6: for a record whose Gender is not M, normalize_name returns First
\* name, a space and: the last white-space-delimited token of Marriage to
\* if Marriage to holds a space; else Married Name if it is not empty; else
\* Last name.
C6_FemaleNameRule ==
    (pc = "returned" /\ arg["Gender"] # GenderM) =>
        ret = Ok(arg["First name"] \o SP \o
                 (IF \E k \in 1..Len(arg["Marriage to"]) : arg["Marriage to"][k] = " "
                  THEN LastToken(arg["Marriage to"])
                  ELSE IF arg["Married Name"] # <<>> THEN arg["Married Name"]
                  ELSE arg["Last name"]))

\* C7: for a record whose Gender is M, normalize_name returns First name, a
\* space and Last name whatever Marriage to and Married Name hold; and such
\* a surviving record with a valid Birth date yields a birthday event whose
\* reason is "Birthday of First Last (born in year)".
C7_MaleNameIsFirstLast ==
    /\ (pc = "returned" /\ arg["Gender"] = GenderM) =>
           ret = Ok(arg["First name"] \o SP \o arg["Last name"])
    /\ WellFormed =>
           \A e \in EventsOfKind("birthday") :
               IsMale(e.line) =>
                   e.reason = <<"B","i","r","t","h","d","a","y"," ","o","f"," ">>
                                  \o csv[e.line]["First name"] \o SP \o csv[e.line]["Last name"]
                                  \o <<" ","(","b","o","r","n"," ","i","n"," ">>
                                  \o YearText(csv[e.line]["Birth date"]) \o <<")">>
    /\ (WellFormed /\ (Extracted \/ pc = "anniversaries")) =>
           \A i \in Lines :
               (GoodBirth(i) /\ IsMale(i)) =>
                   \E k \in ListedOfKind("birthday") : special_days[k].line = i

\* A finished run whose document lists the birthday of a man whose record
\* names a spouse.
C7_Witness ==
    /\ pc = "done"
    /\ \E e \in BucketEvents :
           /\ e.kind = "birthday"
           /\ IsMale(e.line)
           /\ csv[e.line]["Marriage to"] # <<>>

Plain(e) == [date |-> e.date, reason |-> e.reason]

Count(events, x) == Cardinality({k \in 1..Len(events) : Plain(events[k]) = x})

RECURSIVE Flat(_)
\* The events of all the buckets, bucket after bucket.
Flat(d) == IF d = <<>> THEN <<>> ELSE Head(d).events \o Flat(Tail(d))

\* The place of event e in the list of extracted events.
Place(e) == CHOOSE k \in 1..Len(special_days) : special_days[k] = e

\* C8: in the mapping parse_input returns, the month keys are distinct, no
\* bucket is empty, every event of bucket m has month m, the buckets
\* together hold each extracted event as often as it was extracted, and
\* each bucket is in ascending order of (day, reason), the reason compared
\* by code point.
C8_BucketsPartitionAndSorted ==
    Returned =>
        /\ \A a, b \in 1..Len(events_by_month) :
               a # b => events_by_month[a].month # events_by_month[b].month
        /\ \A b \in 1..Len(events_by_month) :
               LET evs == events_by_month[b].events
               IN  /\ evs # <<>>
                   /\ \A k \in 1..Len(evs) : evs[k].date.month = events_by_month[b].month
                   /\ \A i, j \in 1..Len(evs) :
                          i < j =>
                              \/ evs[i].date.day < evs[j].date.day
                              \/ /\ evs[i].date.day = evs[j].date.day
                                 /\ (evs[i].reason = evs[j].reason
                                        \/ StrLt(evs[i].reason, evs[j].reason))
        /\ Len(Flat(events_by_month)) = Len(special_days)
        /\ \A e \in EventsAnywhere :
               Count(Flat(events_by_month), Plain(e)) = Count(special_days, Plain(e))

\* A returned mapping with a bucket in which an event of a smaller day
\* stands before one extracted earlier, and an event of the same day and a
\* smaller reason stands before one extracted earlier.
C8_Witness ==
    /\ pc = "done"
    /\ \E b \in 1..Len(events_by_month) :
           LET evs == events_by_month[b].events
           IN  /\ \E i, j \in 1..Len(evs) :
                      /\ i < j
                      /\ evs[i].date.day < evs[j].date.day
                      /\ Place(evs[j]) < Place(evs[i])
               /\ \E i, j \in 1..Len(evs) :
                      /\ i < j
                      /\ evs[i].date.day = evs[j].date.day
                      /\ evs[i].reason # evs[j].reason
                      /\ Place(evs[j]) < Place(evs[i])

RECURSIVE FirstSeen(_)
\* The distinct elements of a list in the order of their first occurrence.
FirstSeen(ms) ==
    IF ms = <<>> THEN <<>>
    ELSE LET before == FirstSeen(SubSeq(ms, 1, Len(ms) - 1))
         IN  IF \E k \in 1..Len(before) : before[k] = ms[Len(ms)]
             THEN before
             ELSE Append(before, ms[Len(ms)])

MonthsOf(events) == [k \in 1..Len(events) |-> events[k].date.month]

IsHeading(p) == p.kind = "month"

\* C9: the extracted events are the birthdays in row order followed by the
\* anniversaries in row order; the month keys of the mapping, before and
\* after the buckets are sorted, are in the order in which the months are
\* first seen in that list; and the month sections of the document are in
\* the order of the keys.
C9_FirstSeenMonthOrder ==
    /\ Extracted =>
           \A i, j \in 1..Len(special_days) :
               i < j =>
                   \/ special_days[i].kind = "birthday" /\ special_days[j].kind = "anniversary"
                   \/ /\ special_days[i].kind = special_days[j].kind
                      /\ special_days[i].line < special_days[j].line
    /\ pc \in {"sort", "generate_pdf", "done"} =>
           Keys(events_by_month) = FirstSeen(MonthsOf(special_days))
    /\ pc = "done" =>
           LET headings == SelectSeq(output, IsHeading)
           IN  /\ Len(headings) = Len(events_by_month)
               /\ \A k \in 1..Len(headings) :
                      headings[k].month = month_name[FirstSeen(MonthsOf(special_days))[k]]

\* A written document whose first section is a later month of the calendar
\* than its second, the first being the month of a birthday of the second
\* row and the second the month of an anniversary of the first row.
C9_Witness ==
    /\ pc = "done"
    /\ Len(events_by_month) = 2
    /\ events_by_month[1].month > events_by_month[2].month
    /\ \E e \in BucketEvents : e.kind = "birthday" /\ e.line = 2 /\ e.date.month = events_by_month[1].month
    /\ \E e \in BucketEvents : e.kind = "anniversary" /\ e.line = 1 /\ e.date.month = events_by_month[2].month

Couple(i) == {FullName(i), csv[i]["Marriage to"]}

\* C10 as claimed: in a run that completes, each married couple (a record
\* alive with a valid Marriage date, nobody of the couple dead) yields
\* exactly one anniversary event.
C10_OnePerCouple ==
    (pc = "done" /\ WellFormed) =>
        \A i \in Lines :
            (/\ IsAlive(i)
             /\ csv[i]["Marriage date"] \in GoodDates
             /\ \A j \in Lines : FullName(j) \in Couple(i) => IsAlive(j))
            => Cardinality({k \in ListedOfKind("anniversary") :
                               Couple(special_days[k].line) = Couple(i)}) = 1

\* C10 as amended: once both passes have run without an abort, the
\* anniversary events are one for each surviving record with Gender M and a
\* Marriage date that is not empty: every anniversary event comes from such
\* a record and has the reason "Anniversary of First Last and Marriage to
\* (married in year)" built from it, and every such record has exactly one.
C10_OnePerMaleRecord ==
    (Extracted /\ WellFormed) =>
        /\ \A e \in EventsOfKind("anniversary") :
               /\ IsAlive(e.line)
               /\ IsMale(e.line)
               /\ csv[e.line]["Marriage date"] # <<>>
               /\ e.reason = <<"A","n","n","i","v","e","r","s","a","r","y"," ","o","f"," ">>
                                 \o csv[e.line]["First name"] \o SP \o csv[e.line]["Last name"]
                                 \o <<" ","a","n","d"," ">> \o csv[e.line]["Marriage to"]
                                 \o <<" ","(","m","a","r","r","i","e","d"," ","i","n"," ">>
                                 \o YearText(csv[e.line]["Marriage date"]) \o <<")">>
        /\ \A i \in Lines :
               (IsAlive(i) /\ IsMale(i) /\ csv[i]["Marriage date"] # <<>>) =>
                   Cardinality({k \in ListedOfKind("anniversary") : special_days[k].line = i}) = 1

\* A finished run on a husband's and a wife's record, both alive and with a
\* valid Marriage date, with one anniversary event.
C10_Witness ==
    /\ pc = "done"
    /\ WellFormed
    /\ \E i, j \in Lines :
           /\ IsAlive(i) /\ IsMale(i) /\ csv[i]["Marriage date"] \in GoodDates
           /\ IsAlive(j) /\ ~IsMale(j) /\ csv[j]["Marriage date"] \in GoodDates
    /\ Cardinality(ListedOfKind("anniversary")) = 1
    /\ Cardinality(EventsOfKind("anniversary")) = 1

====
